---- MODULE Spec2Model ----
(***************************************************************************)
(* Duplicate detection and removal pipeline of src/app.py:                 *)
(* generate_hash, detect_duplicates, remove_duplicates, generate_report    *)
(* and the Streamlit driver that orchestrates them.                        *)
(*                                                                         *)
(* Strings are sequences of one-character strings.  A cell is a tagged     *)
(* scalar: <<"int", n>> (a Python int) or <<"str", s>> (a Python str), so  *)
(* that the number 1 and the text "1" are different values with the same   *)
(* string form.  A Python dict is a sequence of <<key, value>> pairs in    *)
(* insertion order.                                                        *)
(***************************************************************************)
EXTENDS Integers, Sequences, FiniteSets, TLC

VARIABLES data, column_index, duplicates, report_df, unique_data,
          unique_again, button, message, calls, download, phase

vars == <<data, column_index, duplicates, report_df, unique_data,
          unique_again, button, message, calls, download, phase>>

(* ------------------------------ bounds -------------------------------- *)

MaxRows == 3

MaxWidth == 2

(* ------------------------------ values -------------------------------- *)

IntCell(n) == <<"int", n>>

StrCell(s) == <<"str", s>>

\* The cells of the model: the number 1, the text "1" and the text "a".
Cells == {IntCell(1), StrCell(<<"1">>), StrCell(<<"a">>)}

\* A row of width w.  The code reads only len(row) and row[column_index],
\* so a row is modelled with the same cell in each of its columns.
RowOf(v, w) == [k \in 1..w |-> v]

Rows == {RowOf(v, w) : v \in Cells, w \in 0..MaxWidth}

RECURSIVE SeqsUpTo(_, _)
SeqsUpTo(S, n) ==
    IF n = 0 THEN {<<>>}
    ELSE LET shorter == SeqsUpTo(S, n - 1)
         IN  shorter \cup {Append(t, r) : t \in {u \in shorter : Len(u) = n - 1}, r \in S}

Tables == SeqsUpTo(Rows, MaxRows)

(* ------------------------- Python primitives --------------------------- *)

Digits == <<"0", "1", "2", "3", "4", "5", "6", "7", "8", "9">>

\* str(n) of a non-negative int: its decimal digits.
RECURSIVE IntToStr(_)
IntToStr(n) ==
    IF n < 10 THEN <<Digits[n + 1]>>
    ELSE IntToStr(n \div 10) \o <<Digits[(n % 10) + 1]>>

\* str(value) of a cell.
str(value) == IF value[1] = "int" THEN IntToStr(value[2]) ELSE value[2]

\* sep.join(items)
RECURSIVE join(_, _)
join(sep, items) ==
    IF items = <<>> THEN <<>>
    ELSE IF Len(items) = 1 THEN items[1]
    ELSE items[1] \o sep \o join(sep, Tail(items))

\* hashlib.md5(value.encode('utf-8')).hexdigest(), on the strings of the model.
generate_hash(value) ==
    CASE value = <<"1">> -> "c4ca4238a0b923820dcc509a6f75849b"
      [] value = <<"a">> -> "0cc175b9c0f1b6a831c399e269772661"
      [] value = <<"2">> -> "c81e728d9d4c2f636f067f89cc14862c"

\* dict operations: key in d, d[key], d[key] = v
InDict(d, key) == \E i \in 1..Len(d) : d[i][1] = key

Lookup(d, key) == d[CHOOSE i \in 1..Len(d) : d[i][1] = key][2]

Store(d, key, v) ==
    IF InDict(d, key)
    THEN [i \in 1..Len(d) |-> IF d[i][1] = key THEN <<key, v>> ELSE d[i]]
    ELSE Append(d, <<key, v>>)

(* --------------------------- detect_duplicates ------------------------- *)

\* [row[column_index] for row in data if len(row) > column_index]
column_data(table, c) ==
    LET wide == SelectSeq(table, LAMBDA row : Len(row) > c)
    IN  [i \in 1..Len(wide) |-> wide[i][c + 1]]

\* [generate_hash(str(item)) for item in column_data]
hashed_data(items) == [i \in 1..Len(items) |-> generate_hash(str(items[i]))]

\* collections.Counter(items): one pass, a count per key in first-seen order.
RECURSIVE CounterFrom(_, _, _)
CounterFrom(items, i, occurrences) ==
    IF i > Len(items) THEN occurrences
    ELSE CounterFrom(items, i + 1,
             Store(occurrences, items[i],
                   IF InDict(occurrences, items[i])
                   THEN Lookup(occurrences, items[i]) + 1
                   ELSE 1))

Counter(items) == CounterFrom(items, 1, <<>>)

detect_duplicates_any(table, c) ==
    SelectSeq(Counter(hashed_data(column_data(table, c))), LAMBDA kv : kv[2] > 0)

detect_duplicates(table, c) ==
    SelectSeq(Counter(hashed_data(column_data(table, c))), LAMBDA kv : kv[2] > 1)

(* --------------------------- remove_duplicates ------------------------- *)

Reverse(s) == [i \in 1..Len(s) |-> s[Len(s) + 1 - i]]

\* for row in reversed(data): rows are visited from position i down to 1.
RECURSIVE RemoveLoop(_, _, _, _, _)
RemoveLoop(table, c, i, seen_hashes, unique) ==
    IF i = 0 THEN unique
    ELSE LET row == table[i]
         IN  IF Len(row) > c
             THEN LET item_hash == generate_hash(str(row[c + 1]))
                  IN  IF item_hash \notin seen_hashes
                      THEN RemoveLoop(table, c, i - 1,
                                      seen_hashes \cup {item_hash}, Append(unique, row))
                      ELSE RemoveLoop(table, c, i - 1, seen_hashes, unique)
             ELSE RemoveLoop(table, c, i - 1, seen_hashes, unique)

\* Variants of remove_duplicates with one step of the code changed.
remove_duplicates_first(table, c) ==
    Reverse(RemoveLoop(Reverse(table), c, Len(table), {}, <<>>))

remove_duplicates_unreversed(table, c) ==
    RemoveLoop(table, c, Len(table), {}, <<>>)

RECURSIVE KeepAllLoop(_, _, _, _)
KeepAllLoop(table, c, i, unique) ==
    IF i = 0 THEN unique
    ELSE KeepAllLoop(table, c, i - 1,
                     IF Len(table[i]) > c THEN Append(unique, table[i]) ELSE unique)

remove_duplicates_unseen(table, c) ==
    Reverse(KeepAllLoop(table, c, Len(table), <<>>))

remove_duplicates_short(table, c) ==
    LET kept == Reverse(RemoveLoop(table, c, Len(table), {}, <<>>))
    IN  kept \o SelectSeq(table, LAMBDA row : Len(row) <= c)

remove_duplicates(table, c) ==
    Reverse(RemoveLoop(table, c, Len(table), {}, <<>>))

(* ---------------------------- generate_report -------------------------- *)

\* The first loop of generate_report; i is the 1-based position, idx + 1.
\* Returns <<reverse_lookup, line_numbers>>.
RECURSIVE ReportScan(_, _, _, _, _, _)
ReportScan(dups, table, c, i, reverse_lookup, line_numbers) ==
    IF i > Len(table) THEN <<reverse_lookup, line_numbers>>
    ELSE LET row == table[i]
         IN  IF Len(row) > c
             THEN LET item_hash == generate_hash(str(row[c + 1]))
                      value     == row[c + 1]
                  IN  IF InDict(dups, item_hash)
                      THEN ReportScan(dups, table, c, i + 1,
                               Store(reverse_lookup, item_hash, value),
                               Store(line_numbers, item_hash,
                                     Append(IF InDict(line_numbers, item_hash)
                                            THEN Lookup(line_numbers, item_hash)
                                            ELSE <<>>,
                                            i)))
                      ELSE ReportScan(dups, table, c, i + 1, reverse_lookup, line_numbers)
             ELSE ReportScan(dups, table, c, i + 1, reverse_lookup, line_numbers)

\* The scan with the value captured only the first time a fingerprint is seen.
RECURSIVE ReportScanFirst(_, _, _, _, _, _)
ReportScanFirst(dups, table, c, i, reverse_lookup, line_numbers) ==
    IF i > Len(table) THEN <<reverse_lookup, line_numbers>>
    ELSE LET row == table[i]
         IN  IF Len(row) > c
             THEN LET item_hash == generate_hash(str(row[c + 1]))
                      value     == row[c + 1]
                  IN  IF InDict(dups, item_hash)
                      THEN ReportScanFirst(dups, table, c, i + 1,
                               IF InDict(reverse_lookup, item_hash)
                               THEN reverse_lookup
                               ELSE Store(reverse_lookup, item_hash, value),
                               Store(line_numbers, item_hash,
                                     Append(IF InDict(line_numbers, item_hash)
                                            THEN Lookup(line_numbers, item_hash)
                                            ELSE <<>>,
                                            i)))
                      ELSE ReportScanFirst(dups, table, c, i + 1, reverse_lookup, line_numbers)
             ELSE ReportScanFirst(dups, table, c, i + 1, reverse_lookup, line_numbers)

\* map(str, numbers)
StrAll(numbers) == [k \in 1..Len(numbers) |-> IntToStr(numbers[k])]

\* The second loop: one report row per entry of duplicates, in its order.
ReportRows(dups, scan) ==
    [k \in 1..Len(dups) |->
        [Value       |-> Lookup(scan[1], dups[k][1]),
         Count       |-> dups[k][2],
         LineNumbers |-> join(<<",", " ">>, StrAll(Lookup(scan[2], dups[k][1])))]]

generate_report_first(dups, table, c) ==
    ReportRows(dups, ReportScanFirst(dups, table, c, 1, <<>>, <<>>))

generate_report_zero_based(dups, table, c) ==
    LET scan == ReportScan(dups, table, c, 1, <<>>, <<>>)
        idxs(numbers) == [k \in 1..Len(numbers) |-> numbers[k] - 1]
    IN  [k \in 1..Len(dups) |->
            [Value       |-> Lookup(scan[1], dups[k][1]),
             Count       |-> dups[k][2],
             LineNumbers |-> join(<<",", " ">>,
                                  StrAll(idxs(Lookup(scan[2], dups[k][1]))))]]

generate_report(dups, table, c) ==
    ReportRows(dups, ReportScan(dups, table, c, 1, <<>>, <<>>))

(* ------------------------------ save_data ------------------------------ *)

\* The bytes of the workbook are opaque: the file is modelled by its name and
\* the rows written to it.
save_data(rows, file_name) == [file_name |-> file_name, rows |-> rows]

(* ------------- the functions applied to arbitrary inputs --------------- *)

FnInit ==
    /\ data \in Tables
    /\ column_index \in 0..MaxWidth
    /\ duplicates = <<>>
    /\ report_df = <<>>
    /\ unique_data = <<>>
    /\ unique_again = <<>>
    /\ button = FALSE
    /\ message = ""
    /\ calls = <<>>
    /\ download = <<>>
    /\ phase = "input"

CallDetect ==
    /\ phase = "input"
    /\ duplicates' = detect_duplicates(data, column_index)
    /\ phase' = "detected"
    /\ UNCHANGED <<data, column_index, report_df, unique_data, unique_again,
                   button, message, calls, download>>

CallReport ==
    /\ phase = "detected"
    /\ report_df' = generate_report(duplicates, data, column_index)
    /\ phase' = "reported"
    /\ UNCHANGED <<data, column_index, duplicates, unique_data, unique_again,
                   button, message, calls, download>>

CallRemove ==
    /\ phase = "reported"
    /\ unique_data' = remove_duplicates(data, column_index)
    /\ phase' = "removed"
    /\ UNCHANGED <<data, column_index, duplicates, report_df, unique_again,
                   button, message, calls, download>>

CallRemoveAgain ==
    /\ phase = "removed"
    /\ unique_again' = remove_duplicates(unique_data, column_index)
    /\ phase' = "removed_again"
    /\ UNCHANGED <<data, column_index, duplicates, report_df, unique_data,
                   button, message, calls, download>>

FnNext == CallDetect \/ CallReport \/ CallRemove \/ CallRemoveAgain

FnSpec == FnInit /\ [][FnNext]_vars

(* --------------------------- Streamlit driver -------------------------- *)

\* An uploaded file: the rows pandas reads from it (a rectangular block, at
\* least one column), or a file whose import raises.
FileRows ==
    {t \in Tables : \E w \in 1..MaxWidth : \A i \in 1..Len(t) : Len(t[i]) = w}

Files == [ok : {TRUE}, rows : FileRows] \cup [ok : {FALSE}, rows : {<<>>}]

\* import_data: the rows of the files in upload order; a file that fails is
\* reported and contributes nothing.
RECURSIVE import_data(_)
import_data(uploaded_files) ==
    IF uploaded_files = <<>> THEN <<>>
    ELSE (IF Head(uploaded_files).ok THEN Head(uploaded_files).rows ELSE <<>>)
         \o import_data(Tail(uploaded_files))

Uploads == {<<f>> : f \in Files} \cup {<<f, g>> : f \in Files, g \in Files}

Init ==
    /\ data = <<>>
    /\ column_index = 0
    /\ duplicates = <<>>
    /\ report_df = <<>>
    /\ unique_data = <<>>
    /\ unique_again = <<>>
    /\ button = FALSE
    /\ message = ""
    /\ calls = <<>>
    /\ download = <<>>
    /\ phase = "Idle"

\* What a run of the script shows when the button was not clicked.
NoOutput ==
    /\ duplicates' = <<>>
    /\ report_df' = <<>>
    /\ unique_data' = <<>>
    /\ message' = ""
    /\ calls' = <<>>
    /\ download' = <<>>
    /\ button' = FALSE
    /\ UNCHANGED unique_again

\* The user uploads one or two files: the script runs, imports them and, if
\* any row was read, shows the preview and the column input at its default.
Upload ==
    /\ phase = "Idle"
    /\ \E uploaded_files \in Uploads :
           /\ Len(import_data(uploaded_files)) <= MaxRows
           /\ data' = import_data(uploaded_files)
    /\ column_index' = 0
    /\ phase' = IF data' # <<>> THEN "Loaded" ELSE "Idle"
    /\ NoOutput

\* The user removes the uploaded files: the script runs with nothing loaded.
ClearFiles ==
    /\ phase # "Idle"
    /\ data' = <<>>
    /\ column_index' = 0
    /\ phase' = "Idle"
    /\ NoOutput

\* The user enters column number n (1 for the first column): the script
\* runs again with column_index = n - 1 and the button not clicked.
SelectColumn(n) ==
    /\ phase # "Idle"
    /\ column_index' = n - 1
    /\ phase' = "Loaded"
    /\ NoOutput
    /\ UNCHANGED data

\* The button handler with the bound check of the column weakened.
ClickNoUpperBound ==
    /\ phase # "Idle"
    /\ button' = TRUE
    /\ IF column_index < 0
       THEN /\ message' = "The selected column does not exist."
            /\ phase' = "Loaded"
            /\ duplicates' = <<>>
            /\ report_df' = <<>>
            /\ unique_data' = <<>>
            /\ calls' = <<>>
            /\ download' = <<>>
       ELSE LET dups == detect_duplicates(data, column_index)
            IN  /\ duplicates' = dups
                /\ IF dups # <<>>
                   THEN /\ report_df' = generate_report(dups, data, column_index)
                        /\ unique_data' = remove_duplicates(data, column_index)
                        /\ download' = <<save_data(remove_duplicates(data, column_index),
                                                   "data_without_duplicates.xlsx")>>
                        /\ calls' = <<"detect_duplicates", "generate_report",
                                      "remove_duplicates", "save_data">>
                        /\ message' = ""
                        /\ phase' = "Processed"
                   ELSE /\ report_df' = <<>>
                        /\ unique_data' = <<>>
                        /\ download' = <<>>
                        /\ calls' = <<"detect_duplicates">>
                        /\ message' = "No duplicates detected."
                        /\ phase' = "Loaded"
    /\ UNCHANGED <<data, column_index, unique_again>>

\* The button handler with the deduplicated output produced in both branches.
ClickAlwaysRemove ==
    /\ phase # "Idle"
    /\ button' = TRUE
    /\ IF column_index < 0 \/ column_index >= Len(data[1])
       THEN /\ message' = "The selected column does not exist."
            /\ phase' = "Loaded"
            /\ duplicates' = <<>>
            /\ report_df' = <<>>
            /\ unique_data' = <<>>
            /\ calls' = <<>>
            /\ download' = <<>>
       ELSE LET dups == detect_duplicates(data, column_index)
            IN  /\ duplicates' = dups
                /\ report_df' = IF dups # <<>>
                                THEN generate_report(dups, data, column_index)
                                ELSE <<>>
                /\ unique_data' = remove_duplicates(data, column_index)
                /\ download' = <<save_data(remove_duplicates(data, column_index),
                                           "data_without_duplicates.xlsx")>>
                /\ calls' = IF dups # <<>>
                            THEN <<"detect_duplicates", "generate_report",
                                   "remove_duplicates", "save_data">>
                            ELSE <<"detect_duplicates", "remove_duplicates", "save_data">>
                /\ message' = IF dups # <<>> THEN "" ELSE "No duplicates detected."
                /\ phase' = "Processed"
    /\ UNCHANGED <<data, column_index, unique_again>>

\* The user clicks "Detect and Remove Duplicates": the script runs with the
\* button set, the table and the column as they are.
Click ==
    /\ phase # "Idle"
    /\ button' = TRUE
    /\ IF column_index < 0 \/ column_index >= Len(data[1])
       THEN /\ message' = "The selected column does not exist."
            /\ phase' = "Loaded"
            /\ duplicates' = <<>>
            /\ report_df' = <<>>
            /\ unique_data' = <<>>
            /\ calls' = <<>>
            /\ download' = <<>>
       ELSE LET dups == detect_duplicates(data, column_index)
            IN  /\ duplicates' = dups
                /\ IF dups # <<>>
                   THEN /\ report_df' = generate_report(dups, data, column_index)
                        /\ unique_data' = remove_duplicates(data, column_index)
                        /\ download' = <<save_data(remove_duplicates(data, column_index),
                                                   "data_without_duplicates.xlsx")>>
                        /\ calls' = <<"detect_duplicates", "generate_report",
                                      "remove_duplicates", "save_data">>
                        /\ message' = ""
                        /\ phase' = "Processed"
                   ELSE /\ report_df' = <<>>
                        /\ unique_data' = <<>>
                        /\ download' = <<>>
                        /\ calls' = <<"detect_duplicates">>
                        /\ message' = "No duplicates detected."
                        /\ phase' = "Loaded"
    /\ UNCHANGED <<data, column_index, unique_again>>

Next ==
    \/ Upload
    \/ ClearFiles
    \/ \E n \in 1..(MaxWidth + 1) : SelectColumn(n)
    \/ Click

Spec == Init /\ [][Next]_vars

(* ------------------- vocabulary of the properties ---------------------- *)

\* Row i of the table is wide enough to contain column c.
Wide(table, c, i) == Len(table[i]) > c

\* The string form of the cell of row i at column c (row i wide enough).
CellStr(table, c, i) == str(table[i][c + 1])

WidePositions(table, c) == {i \in 1..Len(table) : Wide(table, c, i)}

\* The positions whose cell at column c has string form s.
PositionsOf(table, c, s) == {i \in WidePositions(table, c) : CellStr(table, c, i) = s}

\* The string forms the cells of the model can take.
CellStrings == {str(v) : v \in Cells}

Min(S) == CHOOSE x \in S : \A y \in S : x <= y

Max(S) == CHOOSE x \in S : \A y \in S : x >= y

DigitValue(ch) == (CHOOSE d \in 1..10 : Digits[d] = ch) - 1

\* The integers of a "n1, n2, ..." string: split at the commas, skip the
\* blanks, read each entry as a decimal number.
RECURSIVE ParseEntries(_, _, _, _)
ParseEntries(s, i, current, entries) ==
    IF i > Len(s) THEN Append(entries, current)
    ELSE IF s[i] = "," THEN ParseEntries(s, i + 1, 0, Append(entries, current))
    ELSE IF s[i] = " " THEN ParseEntries(s, i + 1, current, entries)
    ELSE ParseEntries(s, i + 1, 10 * current + DigitValue(s[i]), entries)

LineNumbersOf(s) == IF s = <<>> THEN <<>> ELSE ParseEntries(s, 1, 0, <<>>)

\* s is a subsequence of t: the elements of s occur in t in the same order.
RECURSIVE IsSubsequence(_, _)
IsSubsequence(s, t) ==
    IF s = <<>> THEN TRUE
    ELSE IF t = <<>> THEN FALSE
    ELSE IF Head(s) = Head(t) THEN IsSubsequence(Tail(s), Tail(t))
    ELSE IsSubsequence(s, Tail(t))

Detected == phase \in {"detected", "reported", "removed", "removed_again"}

Reported == phase \in {"reported", "removed", "removed_again"}

Removed == phase \in {"removed", "removed_again"}

(* ---------------------------- the properties --------------------------- *)

\* C1: every row of remove_duplicates(T, c) is the last occurrence of its
\* value: it is a row of T wide enough for c after which no wide-enough row
\* of T has the same string form at column c.
C1_LastOccurrence ==
    Removed =>
        \A k \in 1..Len(unique_data) :
            \E i \in 1..Len(data) :
                /\ data[i] = unique_data[k]
                /\ Wide(data, column_index, i)
                /\ \A j \in (i + 1)..Len(data) :
                       ~(/\ Wide(data, column_index, j)
                         /\ CellStr(data, column_index, j) = CellStr(data, column_index, i))

C1_Witness ==
    /\ phase = "removed"
    /\ Len(unique_data) >= 1
    /\ Len(unique_data) < Cardinality(WidePositions(data, column_index))

\* C2: remove_duplicates(T, c) has exactly one row per distinct string form
\* found at column c among the wide-enough rows of T: none is missing, none
\* is in two output rows, and the output has no other row.
C2_OnePerValueString ==
    Removed =>
        LET present == {CellStr(data, column_index, i) : i \in WidePositions(data, column_index)}
        IN  /\ Len(unique_data) = Cardinality(present)
            /\ \A k \in 1..Len(unique_data) : Wide(unique_data, column_index, k)
            /\ \A s \in present :
                   Cardinality(PositionsOf(unique_data, column_index, s)) = 1

C2_Witness ==
    /\ phase = "removed"
    /\ Cardinality({CellStr(data, column_index, i) : i \in WidePositions(data, column_index)}) = 2
    /\ Cardinality(WidePositions(data, column_index)) = 3

\* C3: a fingerprint is a key of detect_duplicates(T, c) iff at least two
\* wide-enough rows of T have that string form at column c, and its count is
\* the number of those rows.
C3_DetectorSoundness ==
    Detected =>
        /\ \A k \in 1..Len(duplicates) :
               \E s \in CellStrings : duplicates[k][1] = generate_hash(s)
        /\ \A k1, k2 \in 1..Len(duplicates) :
               duplicates[k1][1] = duplicates[k2][1] => k1 = k2
        /\ \A s \in CellStrings :
               LET n == Cardinality(PositionsOf(data, column_index, s))
               IN  /\ InDict(duplicates, generate_hash(s)) <=> n >= 2
                   /\ InDict(duplicates, generate_hash(s))
                          => Lookup(duplicates, generate_hash(s)) = n

C3_Witness ==
    /\ phase = "detected"
    /\ Len(duplicates) = 1
    /\ \E s \in CellStrings : Cardinality(PositionsOf(data, column_index, s)) = 1

\* C4 as stated: in every report row Count is the number of entries of Line
\* Numbers and at least 2, and every listed line number n names a row
\* T[n-1] whose cell at column c is the report row's Value.
C4_ReportConsistencyByValue ==
    Reported =>
        \A k \in 1..Len(report_df) :
            LET r == report_df[k]
                listed == LineNumbersOf(r.LineNumbers)
            IN  /\ r.Count = Len(listed)
                /\ r.Count >= 2
                /\ \A m \in 1..Len(listed) :
                       /\ listed[m] \in 1..Len(data)
                       /\ Wide(data, column_index, listed[m])
                       /\ data[listed[m]][column_index + 1] = r.Value

\* C4 amended: in every report row Count is the number of entries of Line
\* Numbers and at least 2, and every listed line number n names a row
\* T[n-1] whose cell at column c has the same string form as the report
\* row's Value (the cell itself may be a different value, 1 and "1").
C4_ReportConsistencyByString ==
    Reported =>
        \A k \in 1..Len(report_df) :
            LET r == report_df[k]
                listed == LineNumbersOf(r.LineNumbers)
            IN  /\ r.Count = Len(listed)
                /\ r.Count >= 2
                /\ \A m \in 1..Len(listed) :
                       /\ listed[m] \in 1..Len(data)
                       /\ Wide(data, column_index, listed[m])
                       /\ CellStr(data, column_index, listed[m]) = str(r.Value)

C4_Witness ==
    /\ phase = "reported"
    /\ \E k \in 1..Len(report_df) :
           \E n \in WidePositions(data, column_index) :
               /\ CellStr(data, column_index, n) = str(report_df[k].Value)
               /\ data[n][column_index + 1] # report_df[k].Value

\* C6: remove_duplicates(T, c) is a subsequence of T: the surviving rows,
\* unaltered, in ascending order of original position.
C6_OrderPreserved ==
    Removed => IsSubsequence(unique_data, data)

C6_Witness ==
    /\ phase = "removed"
    /\ Len(unique_data) >= 2
    /\ Len(unique_data) < Len(data)
    /\ unique_data[1] # unique_data[2]

\* C7: a row not longer than c takes part in no stage: the tallies of
\* detect_duplicates are those of the table without such rows, no report
\* row lists its line number, and it is no row of remove_duplicates(T, c).
C7_ShortRowsExcluded ==
    LET short == {i \in 1..Len(data) : ~Wide(data, column_index, i)}
        wide_only == SelectSeq(data, LAMBDA row : Len(row) > column_index)
    IN  /\ Detected => duplicates = detect_duplicates(wide_only, column_index)
        /\ Reported =>
               \A k \in 1..Len(report_df) :
                   LET listed == LineNumbersOf(report_df[k].LineNumbers)
                   IN  \A m \in 1..Len(listed) : listed[m] \notin short
        /\ Removed =>
               \A i \in short : \A k \in 1..Len(unique_data) : unique_data[k] # data[i]

C7_Witness ==
    /\ phase = "removed"
    /\ \E i \in 1..Len(data) : ~Wide(data, column_index, i)
    /\ Len(report_df) >= 1
    /\ Len(unique_data) >= 1

\* C8: remove_duplicates(remove_duplicates(T, c), c) = remove_duplicates(T, c).
C8_Idempotent ==
    phase = "removed_again" => unique_again = unique_data

C8_Witness ==
    /\ phase = "removed_again"
    /\ Len(unique_data) >= 2
    /\ Len(unique_data) < Len(data)

\* C9 as stated: the Value of a report row is the cell of the first row, in
\* original order, that has the row's fingerprint at column c.
C9_ValueOfFirstRow ==
    Reported =>
        \A k \in 1..Len(report_df) :
            LET at == PositionsOf(data, column_index, str(report_df[k].Value))
            IN  report_df[k].Value = data[Min(at)][column_index + 1]

\* C9 amended: the Value of a report row is the cell of the last row, in
\* original order, that has the row's fingerprint at column c: every later
\* row with the fingerprint overwrites the captured value.
C9_ValueOfLastRow ==
    Reported =>
        \A k \in 1..Len(report_df) :
            LET at == PositionsOf(data, column_index, str(report_df[k].Value))
            IN  report_df[k].Value = data[Max(at)][column_index + 1]

C9_Witness ==
    /\ phase = "reported"
    /\ \E k \in 1..Len(report_df) :
           LET at == PositionsOf(data, column_index, str(report_df[k].Value))
           IN  data[Min(at)][column_index + 1] # data[Max(at)][column_index + 1]

\* The column index is inside [0, width of the first row).
ValidColumn(table, c) == c >= 0 /\ c < Len(table[1])

\* At least two wide-enough rows have the same string form at column c.
HasDuplicates(table, c) ==
    \E s \in CellStrings : Cardinality(PositionsOf(table, c, s)) >= 2

\* C5: a click with a column index outside [0, width of the first row)
\* surfaces the error, calls none of detect_duplicates, generate_report,
\* remove_duplicates and save_data, shows no report and no download, and
\* leaves the table, the column and the Loaded state as they were.
C5_InvalidColumnRejected ==
    [][(button' /\ phase # "Idle" /\ ~ValidColumn(data, column_index)) =>
          /\ message' = "The selected column does not exist."
          /\ calls' = <<>>
          /\ report_df' = <<>>
          /\ unique_data' = <<>>
          /\ download' = <<>>
          /\ data' = data
          /\ column_index' = column_index
          /\ phase = "Loaded"
          /\ phase' = "Loaded"]_vars

C5_Witness ==
    /\ button
    /\ phase = "Loaded"
    /\ column_index >= Len(data[1])
    /\ \E i \in 1..Len(data) : Wide(data, column_index, i)
    /\ message = "The selected column does not exist."

\* C10: after a click with a valid column index the detector has run first;
\* the report builder and then the deduplicator have run, and a report and
\* the downloadable deduplicated output are there, iff the table has
\* duplicates at the column; when it has none, "no duplicates" is surfaced
\* and there is neither report nor deduplicated output.
C10_DriverSequence ==
    (button /\ ValidColumn(data, column_index)) =>
        /\ Len(calls) >= 1
        /\ calls[1] = "detect_duplicates"
        /\ duplicates # <<>> <=> HasDuplicates(data, column_index)
        /\ IF HasDuplicates(data, column_index)
           THEN /\ \E i, j \in 2..Len(calls) :
                       /\ calls[i] = "generate_report"
                       /\ calls[j] = "remove_duplicates"
                       /\ i < j
                /\ report_df # <<>>
                /\ Len(download) = 1
                /\ download[1].rows = unique_data
                /\ message # "No duplicates detected."
                /\ phase = "Processed"
           ELSE /\ calls = <<"detect_duplicates">>
                /\ report_df = <<>>
                /\ unique_data = <<>>
                /\ download = <<>>
                /\ message = "No duplicates detected."

C10_Witness ==
    /\ button
    /\ phase = "Processed"
    /\ ValidColumn(data, column_index)
    /\ Len(report_df) >= 1
    /\ Len(download) = 1
    /\ Len(download[1].rows) < Len(data)

====
